---- MODULE Spec2Model ----
(***************************************************************************)
(* A model of the ray tracer kernel of src/src/lib.rs: Color quantisation, *)
(* the Canvas with its PPM encoder, and the Mat4 transforms and inversion. *)
(*                                                                         *)
(* Representation.  A String is a sequence of one-character strings.  An   *)
(* f64 colour component is the integer number of tenths it holds (1.5 is   *)
(* 15); for every tenth in -3.0 .. 4.0 the f64 product with 255.0          *)
(* truncates to the same integer as the exact product does.  Matrix and    *)
(* vector entries are integers, on which f64 arithmetic is exact.          *)
(***************************************************************************)
EXTENDS Integers, Sequences, FiniteSets

VARIABLES
    width,            \* Canvas.width
    height,           \* Canvas.height
    pixels,           \* Canvas.pixels: a sequence of rows, each a sequence of Color
    last,             \* history: per coordinate, the colour of the latest write_pixel there
    ret,              \* outcome of the latest call on the canvas
    m,                \* a Mat4 under construction or inversion
    chain,            \* the elementary transforms appended to m by the fluent builders
    edits,            \* number of entries of m assigned so far
    inv,              \* outcome of the latest inverted() call
    xs,               \* outcome of the latest get_intersection call
    call              \* the latest call of a function of Vec4, Color or a matrix

vars == <<width, height, pixels, last, ret, m, chain, edits, inv, xs, call>>

canvasVars == <<width, height, pixels, last, ret>>

matVars == <<m, chain, edits, inv, xs, call>>

---------------------------------------------------------------------------
(* Bounds of the model *)

MaxW == 7

MaxH == 2

MaxCells == 7

MaxChain == 3

MaxEdits == 2

MaxMatEdits == 1

MaxCoord == 1

MaxDiffs == 1

---------------------------------------------------------------------------
(* Strings *)

SP == " "

NL == "\n"

DigitChars == <<"0", "1", "2", "3", "4", "5", "6", "7", "8", "9">>

\* Display for an unsigned integer (u8 and usize): decimal, no padding.
RECURSIVE ToString(_)
ToString(n) ==
    IF n < 10 THEN <<DigitChars[n + 1]>>
    ELSE ToString(n \div 10) \o <<DigitChars[(n % 10) + 1]>>

\* String::pop: removes the last character, whatever it is; nothing on "".
Pop(s) ==
    IF Len(s) = 0 THEN s ELSE SubSeq(s, 1, Len(s) - 1)

---------------------------------------------------------------------------
(* Color *)

ColorScale == 10

U8Max == 255

Color(r, g, b) == [r |-> r, g |-> g, b |-> b]

\* The colours the model writes: black, (1, 0.8, 0.6) and (1.5, 0.5, -1).
Palette == {Color(0, 0, 0), Color(10, 8, 6), Color(15, 5, -10)}

\* A cast that wraps modulo 256 instead of saturating.
F64AsU8Wrapping(x) ==
    IF x < 0 THEN (256 - (((-x) \div ColorScale) % 256)) % 256
    ELSE (x \div ColorScale) % 256

\* `x as u8` for the f64 x / ColorScale: truncates toward zero and saturates.
F64AsU8(x) ==
    IF x < 0 THEN 0
    ELSE IF x \div ColorScale > U8Max THEN U8Max
    ELSE x \div ColorScale

AsU8Tup(c) ==
    <<F64AsU8(c.r * 255), F64AsU8(c.g * 255), F64AsU8(c.b * 255)>>

---------------------------------------------------------------------------
(* Equality.  Where equality is modelled an f64 is the whole number of its
   ten-millionths (1.0000005 is 10000005), which holds the tolerance 0.00001
   exactly. *)

EqScale == 10000000

Tolerance == 100

\* f64::abs
Abs(x) == IF x < 0 THEN -x ELSE x

\* A test that lets a difference of exactly 0.00001 through.
EqualApproxInclusive(a, b) == Abs(a - b) <= Tolerance

\* equal_approx(a, b): (a - b).abs() < 0.00001
EqualApprox(a, b) == Abs(a - b) < Tolerance

\* Vec4 == Vec4
Vec4Eq(self, other) ==
    /\ EqualApprox(self.x, other.x)
    /\ EqualApprox(self.y, other.y)
    /\ EqualApprox(self.z, other.z)
    /\ EqualApprox(self.w, other.w)

\* Color == Color
ColorEq(self, other) ==
    /\ EqualApprox(self.r, other.r)
    /\ EqualApprox(self.g, other.g)
    /\ EqualApprox(self.b, other.b)

\* $mat_name::equal_approx: false at the first entry that fails the test
MatEqualApprox(self, other) ==
    \A row \in 1..Len(self) : \A col \in 1..Len(self) :
        EqualApprox(self[row][col], other[row][col])

\* $mat_name == $mat_name: self.data == other.data
MatEq(self, other) ==
    \A row \in 1..Len(self) : \A col \in 1..Len(self) :
        self[row][col] = other[row][col]

---------------------------------------------------------------------------
(* Canvas *)

LineLimit == 70

UsizeMax == 2147483647

Overflow == -1

\* usize subtraction a - b: panics (Overflow) when overflow checks are on, wraps otherwise.
UsizeSub(a, b, checks) ==
    IF a >= b THEN a - b
    ELSE IF checks THEN Overflow
    ELSE UsizeMax - (b - a) + 1

\* vec![vec![fill_color; width]; height]
CanvasNew(w, h, fill) == [y \in 1..h |-> [x \in 1..w |-> fill]]

\* The guard of write_pixel, left to right with short-circuit ||:
\* "panic" (overflow), "return" (out of bounds) or "write".
WritePixelGuard(w, h, x, y, checks) ==
    LET w1 == UsizeSub(w, 1, checks)
        h1 == UsizeSub(h, 1, checks)
    IN  IF w1 = Overflow THEN "panic"
        ELSE IF x > w1 THEN "return"
        ELSE IF h1 = Overflow THEN "panic"
        ELSE IF y > h1 THEN "return"
        ELSE "write"

\* A store that ignores x and always hits the first pixel of the row.
WritePixelStoreFirst(px, x, y, color) ==
    IF y + 1 > Len(px) \/ x + 1 > Len(px[y + 1]) THEN [ok |-> FALSE, px |-> px]
    ELSE [ok |-> TRUE, px |-> [px EXCEPT ![y + 1][1] = color]]

\* self.pixels[y][x] = color.clone(): an index out of range panics.
WritePixelStore(px, x, y, color) ==
    IF y + 1 > Len(px) \/ x + 1 > Len(px[y + 1]) THEN [ok |-> FALSE, px |-> px]
    ELSE [ok |-> TRUE, px |-> [px EXCEPT ![y + 1][x + 1] = color]]

ReadPixel(x, y) == pixels[y + 1][x + 1]

FormatLine(r, g, b) ==
    ToString(r) \o <<SP>> \o ToString(g) \o <<SP>> \o ToString(b) \o <<SP>>

FormatRg(r, g) == ToString(r) \o <<SP>> \o ToString(g) \o <<NL>>

FormatGb(g, b) == ToString(g) \o <<SP>> \o ToString(b) \o <<SP>>

PpmHeader(w, h) ==
    <<"P", "3", NL>> \o ToString(w) \o <<SP>> \o ToString(h) \o <<NL, "2", "5", "5", NL>>

\* A limit test that lets two more characters through.
LineTooLongLate(n, line) == n + Len(line) > LineLimit + 2

\* A limit test that leaves the trailing space of the pixel out.
LineTooLongBare(n, line) == n + Len(line) - 1 > LineLimit

\* chars_in_current_line + line.len() > 70
LineTooLong(n, line) == n + Len(line) > LineLimit

\* A split that moves the whole pixel to the next line.
SplitAfterGWholePixel(st, r, g, b) ==
    [st EXCEPT !.s = Pop(st.s) \o <<NL>> \o FormatLine(r, g, b),
               !.n = Len(FormatLine(r, g, b))]

\* R and G go on the current line, B on the next.
SplitAfterG(st, r, g, b) ==
    [st EXCEPT !.s = st.s \o FormatRg(r, g) \o ToString(b) \o <<SP>>,
               !.n = Len(ToString(b)) + 1]

\* A split that forgets G on the next line.
SplitAfterRDropG(st, r, g, b) ==
    [st EXCEPT !.s = st.s \o ToString(r) \o <<NL>> \o ToString(b) \o <<SP>>,
               !.n = Len(ToString(b)) + 1]

\* R goes on the current line, G and B on the next.
SplitAfterR(st, r, g, b) ==
    [st EXCEPT !.s = st.s \o ToString(r) \o <<NL>> \o FormatGb(g, b),
               !.n = Len(FormatGb(g, b))]

\* A split before R that adds the pixel to the counter instead of restarting it.
SplitBeforeAccumulate(st, r, g, b) ==
    [st EXCEPT !.s = Pop(st.s) \o <<NL>> \o FormatLine(r, g, b),
               !.n = st.n + Len(FormatLine(r, g, b))]

\* The trailing space becomes a newline; R, G and B go on the next line.
SplitBefore(st, r, g, b) ==
    [st EXCEPT !.s = Pop(st.s) \o <<NL>> \o FormatLine(r, g, b),
               !.n = Len(FormatLine(r, g, b))]

\* A step that tries R alone on the current line before it tries R and G.
PixelStepRFirst(st, pixel) ==
    LET t == AsU8Tup(pixel)
        r == t[1]
        g == t[2]
        b == t[3]
        line == FormatLine(r, g, b)
        chars_remaining == UsizeSub(LineLimit, st.n, FALSE)
        st1 == [st EXCEPT !.underflow = st.underflow \/ st.n > LineLimit]
    IN  IF LineTooLong(st.n, line)
        THEN IF Len(ToString(r)) + 1 <= chars_remaining THEN SplitAfterR(st1, r, g, b)
             ELSE IF Len(FormatRg(r, g)) <= chars_remaining THEN SplitAfterG(st1, r, g, b)
             ELSE SplitBefore(st1, r, g, b)
        ELSE [st EXCEPT !.s = st.s \o line, !.n = st.n + Len(line)]

\* The body of the inner loop of to_ppm for one pixel.  st.s is ppm_str, st.n is
\* chars_in_current_line, st.underflow records a 70 - chars_in_current_line
\* evaluated with chars_in_current_line > 70 (a panic under overflow checks, a
\* wrapped value without them).
PixelStep(st, pixel) ==
    LET t == AsU8Tup(pixel)
        r == t[1]
        g == t[2]
        b == t[3]
        line == FormatLine(r, g, b)
        chars_remaining == UsizeSub(LineLimit, st.n, FALSE)
        st1 == [st EXCEPT !.underflow = st.underflow \/ st.n > LineLimit]
    IN  IF LineTooLong(st.n, line)
        THEN IF Len(FormatRg(r, g)) <= chars_remaining THEN SplitAfterG(st1, r, g, b)
             ELSE IF Len(ToString(r)) + 1 <= chars_remaining THEN SplitAfterR(st1, r, g, b)
             ELSE SplitBefore(st1, r, g, b)
        ELSE [st EXCEPT !.s = st.s \o line, !.n = st.n + Len(line)]

RECURSIVE RowLoop(_, _, _)
RowLoop(st, row, i) ==
    IF i > Len(row) THEN st ELSE RowLoop(PixelStep(st, row[i]), row, i + 1)

\* A row end that keeps the trailing space.
RowEndKeepSpace(st) == [st EXCEPT !.s = st.s \o <<NL>>, !.n = 0]

\* After the pixels of a row: pop, push a newline, reset the counter.
RowEnd(st) == [st EXCEPT !.s = Pop(st.s) \o <<NL>>, !.n = 0]

RECURSIVE CanvasLoop(_, _, _)
CanvasLoop(st, px, j) ==
    IF j > Len(px) THEN st
    ELSE CanvasLoop(RowEnd(RowLoop(st, px[j], 1)), px, j + 1)

ToPpmRun(w, h, px) ==
    CanvasLoop([s |-> PpmHeader(w, h), n |-> 0, underflow |-> FALSE], px, 1)

ToPpm(w, h, px) == ToPpmRun(w, h, px).s

---------------------------------------------------------------------------
(* Canvas operations *)

Kinds == {"new", "unit", "ppm", "panic"}

Ret(kind, val) == [kind |-> kind, val |-> val]

Black == Color(0, 0, 0)

Coords(w, h) == (0..(w - 1)) \X (0..(h - 1))

\* The canvas as write_pixel leaves it; ok is FALSE when the call panics.
WritePixelApply(w, h, px, x, y, color, checks) ==
    LET guard == WritePixelGuard(w, h, x, y, checks)
        store == WritePixelStore(px, x, y, color)
    IN  IF guard = "panic" THEN [ok |-> FALSE, px |-> px]
        ELSE IF guard = "return" THEN [ok |-> TRUE, px |-> px]
        ELSE store

\* Canvas::new(width, height, fill_color)
New(w, h, fill) ==
    /\ width = w
    /\ height = h
    /\ pixels = CanvasNew(w, h, fill)
    /\ last = [p \in Coords(w, h) |-> fill]
    /\ ret = Ret("new", <<>>)

\* canvas.write_pixel(x, y, &color).  checks is the build profile: TRUE panics on
\* integer overflow, FALSE wraps.  A call that does not panic has the same
\* outcome under both profiles unless the canvas is empty, and a panic ends
\* the run, so choosing the profile per call reaches the states of the two builds.
WritePixel(x, y, color, checks) ==
    /\ ret.kind # "panic"
    /\ width * height <= MaxCells
    /\ LET res == WritePixelApply(width, height, pixels, x, y, color, checks)
       IN  /\ pixels' = res.px
           /\ ret' = Ret(IF res.ok THEN "unit" ELSE "panic", <<>>)
    /\ last' = IF <<x, y>> \in Coords(width, height)
               THEN [last EXCEPT ![<<x, y>>] = color]
               ELSE last
    /\ UNCHANGED <<width, height, matVars>>

\* canvas.to_ppm()
ToPpmCall(checks) ==
    /\ ret.kind # "panic"
    /\ ret' = CHOOSE out \in
                 { IF run.underflow /\ checks THEN Ret("panic", <<>>) ELSE Ret("ppm", run.s)
                   : run \in {ToPpmRun(width, height, pixels)} } : TRUE
    /\ UNCHANGED <<width, height, pixels, last, matVars>>

RECURSIVE WriteAll(_, _, _, _, _)
WriteAll(w, h, px, writes, checks) ==
    IF writes = <<>> THEN px
    ELSE WriteAll(w, h,
                  WritePixelApply(w, h, px, Head(writes)[1], Head(writes)[2],
                                  Head(writes)[3], checks).px,
                  Tail(writes), checks)

\* The canvas of canvas_tests::ppm_pixel_data.
PpmPixelDataCanvas ==
    WriteAll(5, 3, CanvasNew(5, 3, Black),
             << <<0, 0, Color(15, 0, 0)>>, <<2, 1, Color(0, 5, 0)>>,
                <<4, 2, Color(-5, 0, 10)>> >>, TRUE)

\* The canvas of canvas_tests::ppm_split_lines.
PpmSplitLinesCanvas ==
    WriteAll(10, 2, CanvasNew(10, 2, Black),
             [k \in 1..20 |-> <<(k - 1) \div 2, (k - 1) % 2, Color(10, 8, 6)>>], TRUE)

\* A test of canvas_tests, run on its own: a fresh canvas, its writes, then to_ppm.
RunTest(w, h, px) ==
    /\ ret.kind = "new"
    /\ width' = w
    /\ height' = h
    /\ pixels' = px
    /\ last' = [p \in Coords(w, h) |-> px[p[2] + 1][p[1] + 1]]
    /\ ret' = Ret("ppm", ToPpm(w, h, px))
    /\ UNCHANGED matVars

TestPpmPixelData == RunTest(5, 3, PpmPixelDataCanvas)

TestPpmSplitLines == RunTest(10, 2, PpmSplitLinesCanvas)

---------------------------------------------------------------------------
(* Vec4 and the matrices.  A matrix is the sequence of its rows: data[row][col]
   of the source is mat[row + 1][col + 1]. *)

NewVec4(x, y, z, w) == [x |-> x, y |-> y, z |-> z, w |-> w]

NewPoint(x, y, z) == NewVec4(x, y, z, 1)

NewVec(x, y, z) == NewVec4(x, y, z, 0)

\* An addition of x, y and z that keeps the w of the left operand.
VecAddKeepW(a, b) == NewVec4(a.x + b.x, a.y + b.y, a.z + b.z, a.w)

VecAdd(a, b) == NewVec4(a.x + b.x, a.y + b.y, a.z + b.z, a.w + b.w)

VecSub(a, b) == NewVec4(a.x - b.x, a.y - b.y, a.z - b.z, a.w - b.w)

\* -v: every component times -1.0
Neg(v) == NewVec4(v.x * (-1), v.y * (-1), v.z * (-1), v.w * (-1))

\* A cross product whose y has its two terms the other way round.
CrossWrongY(self, other) ==
    NewVec((self.y * other.z) - (self.z * other.y),
           (self.x * other.z) - (self.z * other.x),
           (self.x * other.y) - (self.y * other.x))

Cross(self, other) ==
    NewVec((self.y * other.z) - (self.z * other.y),
           (self.z * other.x) - (self.x * other.z),
           (self.x * other.y) - (self.y * other.x))

Dot(a, b) == (a.x * b.x) + (a.y * b.y) + (a.z * b.z) + (a.w * b.w)

\* An f64 that need not be a whole number: NaN, or the quotient num / den of two
\* whole numbers (den > 0), to which nudge times 0.00000000000000017 was added.
F64(nan, num, den, nudge) == [nan |-> nan, num |-> num, den |-> den, nudge |-> nudge]

NaN == F64(TRUE, 0, 1, 0)

\* a / b for whole numbers a and b >= 0: 0.0 / 0.0 is NaN.  (A nonzero a over
\* 0.0 is an infinity, which no operand of the model produces.)
F64Div(a, b) == IF b = 0 THEN NaN ELSE F64(FALSE, a, b, 0)

\* a != 0.0: true of NaN
F64NonZero(a) == a.nan \/ a.num # 0 \/ a.nudge # 0

\* a.signum() for a that is not NaN: 1.0 or -1.0 (1.0 for 0.0)
Signum(a) == IF a.num < 0 THEN -1 ELSE 1

\* a + (0.00000000000000017 * a.signum()): NaN, whose signum is NaN, stays NaN
Nudged(a) == IF a.nan THEN NaN ELSE [a EXCEPT !.nudge = a.nudge + Signum(a)]

\* The square root of a whole number that is a square.
Sqrt(n) == CHOOSE r \in 0..n : r * r = n

\* magnitude() of a Vec4 of whole numbers whose squares add up to a square
Magnitude(v) == Sqrt((v.x * v.x) + (v.y * v.y) + (v.z * v.z) + (v.w * v.w))

\* Vec4 / f64, for a Vec4 of whole numbers and a whole divisor
VecDiv(a, b) == NewVec4(F64Div(a.x, b), F64Div(a.y, b), F64Div(a.z, b), F64Div(a.w, b))

\* normed.magnitude() == 1.0, for the quotient normed of a Vec4 by a power of
\* two, on which every step of magnitude() is exact: false when a component
\* is NaN, as the magnitude is NaN then.
MagnitudeIsOne(normed) ==
    /\ ~(normed.x.nan \/ normed.y.nan \/ normed.z.nan \/ normed.w.nan)
    /\ normed.x.nudge = 0 /\ normed.y.nudge = 0 /\ normed.z.nudge = 0
    /\ (normed.x.num * normed.x.num) + (normed.y.num * normed.y.num)
         + (normed.z.num * normed.z.num) + (normed.w.num * normed.w.num)
           = normed.x.den * normed.x.den

\* Vec4::normalized
Normalized(self) ==
    LET normed == VecDiv(self, Magnitude(self))
    IN  IF ~MagnitudeIsOne(normed)
        THEN IF F64NonZero(normed.x) THEN [normed EXCEPT !.x = Nudged(normed.x)]
             ELSE IF F64NonZero(normed.y) THEN [normed EXCEPT !.y = Nudged(normed.y)]
             ELSE [normed EXCEPT !.z = Nudged(normed.z)]
        ELSE normed

Mat4Zeros == [row \in 1..4 |-> [col \in 1..4 |-> 0]]

\* $mat_name::zeros() for the size n
MatZeros(n) == [row \in 1..n |-> [col \in 1..n |-> 0]]

\* A transposition that fills only the diagonal and what is above it.
TransposedUpper(mat) ==
    [row \in 1..Len(mat) |-> [col \in 1..Len(mat) |->
        IF col >= row THEN mat[col][row] ELSE MatZeros(Len(mat))[row][col]]]

\* $mat_name::transposed: m_tmp.data[row][col] = self.data[col][row]
Transposed(mat) ==
    [row \in 1..Len(mat) |-> [col \in 1..Len(mat) |-> mat[col][row]]]

\* Mat4 * Mat4
MatMul(a, b) ==
    [row \in 1..4 |-> [col \in 1..4 |->
        a[row][1] * b[1][col] + a[row][2] * b[2][col] +
        a[row][3] * b[3][col] + a[row][4] * b[4][col]]]

\* A product that leaves out the fourth column, as if every Vec4 had w = 0.
MatVecNoW(a, b) ==
    LET v == [row \in 1..4 |->
                a[row][1] * b.x + a[row][2] * b.y + a[row][3] * b.z]
    IN  NewVec4(v[1], v[2], v[3], v[4])

\* Mat4 * Vec4
MatVec(a, b) ==
    LET v == [row \in 1..4 |->
                a[row][1] * b.x + a[row][2] * b.y + a[row][3] * b.z + a[row][4] * b.w]
    IN  NewVec4(v[1], v[2], v[3], v[4])

Id ==
    << <<1, 0, 0, 0>>,
       <<0, 1, 0, 0>>,
       <<0, 0, 1, 0>>,
       <<0, 0, 0, 1>> >>

\* A translation with x, y and z in the last row instead of the last column.
NewTranslationTransposed(x, y, z) ==
    << <<1, 0, 0, 0>>,
       <<0, 1, 0, 0>>,
       <<0, 0, 1, 0>>,
       <<x, y, z, 1>> >>

NewTranslation(x, y, z) ==
    << <<1, 0, 0, x>>,
       <<0, 1, 0, y>>,
       <<0, 0, 1, z>>,
       <<0, 0, 0, 1>> >>

NewScaling(x, y, z) ==
    << <<x, 0, 0, 0>>,
       <<0, y, 0, 0>>,
       <<0, 0, z, 0>>,
       <<0, 0, 0, 1>> >>

\* An angle r is a number of quarter turns, where cos and sin are 0, 1 or -1.
Cos(r) == <<1, 0, -1, 0>>[(r % 4) + 1]

Sin(r) == <<0, 1, 0, -1>>[(r % 4) + 1]

NewRotationX(r) ==
    << <<1, 0, 0, 0>>,
       <<0, Cos(r), -Sin(r), 0>>,
       <<0, Sin(r), Cos(r), 0>>,
       <<0, 0, 0, 1>> >>

NewRotationY(r) ==
    << <<Cos(r), 0, Sin(r), 0>>,
       <<0, 1, 0, 0>>,
       <<-Sin(r), 0, Cos(r), 0>>,
       <<0, 0, 0, 1>> >>

NewRotationZ(r) ==
    << <<Cos(r), -Sin(r), 0, 0>>,
       <<Sin(r), Cos(r), 0, 0>>,
       <<0, 0, 1, 0>>,
       <<0, 0, 0, 1>> >>

NewShearing(xy, xz, yx, yz, zx, zy) ==
    << <<1, xy, xz, 0>>,
       <<yx, 1, yz, 0>>,
       <<zx, zy, 1, 0>>,
       <<0, 0, 0, 1>> >>

\* A builder that multiplies on the other side.
TranslatePre(self, x, y, z) == MatMul(NewTranslation(x, y, z), self)

Translate(self, x, y, z) == MatMul(self, NewTranslation(x, y, z))

Scale(self, x, y, z) == MatMul(self, NewScaling(x, y, z))

RotateX(self, r) == MatMul(self, NewRotationX(r))

RotateY(self, r) == MatMul(self, NewRotationY(r))

RotateZ(self, r) == MatMul(self, NewRotationZ(r))

Shear(self, xy, xz, yx, yz, zx, zy) == MatMul(self, NewShearing(xy, xz, yx, yz, zx, zy))

\* The entries of an n x n matrix outside row `row` and column `col` (counted
\* from 0), pushed row by row: m_values of submatrix.
SubmatrixValues(mat, n, row, col) ==
    LET all == [k \in 1..(n * n) |-> k]
        kept == SelectSeq(all, LAMBDA k: ((k - 1) \div n) # row /\ ((k - 1) % n) # col)
    IN  [i \in 1..Len(kept) |-> mat[((kept[i] - 1) \div n) + 1][((kept[i] - 1) % n) + 1]]

Mat3Submatrix(mat, row, col) ==
    LET m_values == SubmatrixValues(mat, 3, row, col)
    IN  << <<m_values[1], m_values[2]>>,
           <<m_values[3], m_values[4]>> >>

Mat4Submatrix(mat, row, col) ==
    LET m_values == SubmatrixValues(mat, 4, row, col)
    IN  << <<m_values[1], m_values[2], m_values[3]>>,
           <<m_values[4], m_values[5], m_values[6]>>,
           <<m_values[7], m_values[8], m_values[9]>> >>

\* A test of the indices that lets index 4 through.
Mat4SubmatrixPanicsLate(row_to_exclude, col_to_exclude) ==
    row_to_exclude > 4 \/ col_to_exclude > 4

\* Mat4::submatrix panics: row_to_exclude > 3 || col_to_exclude > 3
Mat4SubmatrixPanics(row_to_exclude, col_to_exclude) ==
    row_to_exclude > 3 \/ col_to_exclude > 3

\* Mat3::submatrix panics: row_to_exclude > 2 || col_to_exclude > 2
Mat3SubmatrixPanics(row_to_exclude, col_to_exclude) ==
    row_to_exclude > 2 \/ col_to_exclude > 2

Mat2Determinant(mat) == (mat[1][1] * mat[2][2]) - (mat[1][2] * mat[2][1])

Mat3Minor(mat, row, col) == Mat2Determinant(Mat3Submatrix(mat, row, col))

\* A cofactor that never negates the minor.
Mat3CofactorUnsigned(mat, row, col) == Mat3Minor(mat, row, col)

Mat3Cofactor(mat, row, col) ==
    IF (row + col) % 2 = 0 THEN Mat3Minor(mat, row, col) ELSE -Mat3Minor(mat, row, col)

Mat3Determinant(mat) ==
    mat[1][1] * Mat3Cofactor(mat, 0, 0) +
    mat[1][2] * Mat3Cofactor(mat, 0, 1) +
    mat[1][3] * Mat3Cofactor(mat, 0, 2)

\* A minor that takes the submatrix of (col, row).
Mat4MinorSwapped(mat, row, col) == Mat3Determinant(Mat4Submatrix(mat, col, row))

Mat4Minor(mat, row, col) == Mat3Determinant(Mat4Submatrix(mat, row, col))

Mat4Cofactor(mat, row, col) ==
    IF (row + col) % 2 = 0 THEN Mat4Minor(mat, row, col) ELSE -Mat4Minor(mat, row, col)

Mat4Determinant(mat) ==
    mat[1][1] * Mat4Cofactor(mat, 0, 0) +
    mat[1][2] * Mat4Cofactor(mat, 0, 1) +
    mat[1][3] * Mat4Cofactor(mat, 0, 2) +
    mat[1][4] * Mat4Cofactor(mat, 0, 3)

\* determinant() of a Mat2, Mat3 or Mat4, each with its own
Determinant(mat) ==
    IF Len(mat) = 2 THEN Mat2Determinant(mat)
    ELSE IF Len(mat) = 3 THEN Mat3Determinant(mat)
    ELSE Mat4Determinant(mat)

\* submatrix(row, col) of a Mat3 or Mat4: kind "panic" and no matrix, or kind
\* "ok" and the matrix.
Submatrix(mat, row, col) ==
    IF Len(mat) = 3
    THEN IF Mat3SubmatrixPanics(row, col) THEN [kind |-> "panic", val |-> <<>>]
         ELSE [kind |-> "ok", val |-> Mat3Submatrix(mat, row, col)]
    ELSE IF Mat4SubmatrixPanics(row, col) THEN [kind |-> "panic", val |-> <<>>]
         ELSE [kind |-> "ok", val |-> Mat4Submatrix(mat, row, col)]

\* minor(row, col) of a Mat3 or Mat4: the panic of submatrix(row, col), or the
\* determinant of the matrix it returns.
Minor(mat, row, col) ==
    IF Submatrix(mat, row, col).kind = "panic" THEN [kind |-> "panic", val |-> <<>>]
    ELSE [kind |-> "ok",
          val |-> IF Len(mat) = 3 THEN Mat3Minor(mat, row, col) ELSE Mat4Minor(mat, row, col)]

\* cofactor(row, col) of a Mat3 or Mat4: the panic of minor(row, col), or the
\* minor, negated when row + col is odd.
Cofactor(mat, row, col) ==
    IF Minor(mat, row, col).kind = "panic" THEN [kind |-> "panic", val |-> <<>>]
    ELSE [kind |-> "ok",
          val |-> IF Len(mat) = 3 THEN Mat3Cofactor(mat, row, col)
                  ELSE Mat4Cofactor(mat, row, col)]

\* The outcome of inverted(): kind "panic" (the determinant is 0), or kind "ok" with
\* the matrix whose entry [row][col] is the f64 quotient num[row][col] / den.
InvOutcome(kind, num, den) == [kind |-> kind, num |-> num, den |-> den]

\* The cofactors stored where they were computed, not transposed.
InvertedUntransposed(mat) ==
    LET det == Mat4Determinant(mat)
    IN  IF det = 0 THEN InvOutcome("panic", Mat4Zeros, 0)
        ELSE InvOutcome("ok",
                 [row \in 1..4 |-> [col \in 1..4 |-> Mat4Cofactor(mat, row - 1, col - 1)]],
                 det)

\* No test of the determinant: the division by 0 goes through.
InvertedUnchecked(mat) ==
    InvOutcome("ok",
        [col \in 1..4 |-> [row \in 1..4 |-> Mat4Cofactor(mat, row - 1, col - 1)]],
        Mat4Determinant(mat))

\* m_tmp.data[col][row] = self.cofactor(row, col) / det
Inverted(mat) ==
    LET det == Mat4Determinant(mat)
    IN  IF det = 0 THEN InvOutcome("panic", Mat4Zeros, 0)
        ELSE InvOutcome("ok",
                 [col \in 1..4 |-> [row \in 1..4 |-> Mat4Cofactor(mat, row - 1, col - 1)]],
                 det)

---------------------------------------------------------------------------
(* Ray, Sphere and get_intersection *)

NewRay(origin, direction) == [origin |-> origin, direction |-> direction]

\* The outcome of get_intersection: the ray, the ray in object space (local),
\* the coefficients and the discriminant of the quadratic, and the values
\* returned (ts, n of them).
XsOutcome(kind, ray, local, a, b, c, disc, n, ts) ==
    [kind |-> kind, ray |-> ray, local |-> local, a |-> a, b |-> b, c |-> c,
     disc |-> disc, n |-> n, ts |-> ts]

NoRay == NewRay(NewPoint(0, 0, 0), NewVec(0, 0, 0))

\* A ray in object space: its origin is origin / den and its direction is
\* direction / den.
LocalRay(origin, direction, den) == [origin |-> origin, direction |-> direction, den |-> den]

NoLocal == LocalRay(NewPoint(0, 0, 0), NewVec(0, 0, 0), 1)

NoXs == XsOutcome("none", NoRay, NoLocal, 0, 0, 0, 0, 0, <<>>)

\* The f64 value (-b + sign * sqrt(disc)) / den, kept as its four whole parts.
Root(b, sign, disc, den) == [b |-> b, sign |-> sign, disc |-> disc, den |-> den]

\* The quadratic of get_intersection, from the outcome i of inverting the
\* transform and the ray's origin o and direction d multiplied by i.num.  With
\* det = i.den, the local origin is o / det and the local direction d / det; a,
\* b and c are the coefficients multiplied by det^2 and disc is the discriminant
\* multiplied by det^4, so the sign of disc is the sign of the discriminant and
\* (-b +- sqrt(disc)) / (2 * a) is what it is without the factors; n is the
\* number of values returned.
Quadratic(i, ray, o, d) ==
    LET sphere_to_ray == NewVec4(o.x, o.y, o.z, o.w - i.den)
        a == Dot(d, d)
        b == 2 * Dot(d, sphere_to_ray)
        c == Dot(sphere_to_ray, sphere_to_ray) - (i.den * i.den)
        disc == (b * b) - (4 * a * c)
    IN  XsOutcome("xs", ray, LocalRay(o, d, i.den), a, b, c, disc,
                  IF disc < 0 THEN 0 ELSE 2,
                  IF disc < 0 THEN <<>>
                  ELSE <<Root(b, -1, disc, 2 * a), Root(b, 1, disc, 2 * a)>>)

\* get_intersection(sphere, ray) for a sphere with the given transform.  A
\* transform that cannot be inverted gives kind "panic".  (Each intermediate
\* value is bound once, as the singleton sets do.)
GetIntersection(transform, ray) ==
    CHOOSE out \in
        { IF i.kind = "panic" THEN XsOutcome("panic", ray, NoLocal, 0, 0, 0, 0, 0, <<>>)
          ELSE CHOOSE q \in { Quadratic(i, ray, o, d) :
                                o \in {MatVec(i.num, ray.origin)},
                                d \in {MatVec(i.num, ray.direction)} } : TRUE
          : i \in {Inverted(transform)} } : TRUE

---------------------------------------------------------------------------
(* The specification of the canvas: a canvas is made, then written and encoded. *)

NoInv == InvOutcome("none", Mat4Zeros, 0)

\* A call of a function: its name, its receiver (or first operand) and its other
\* arguments as the call leaves them, whether it returned ("ok") or panicked, and
\* the value it returned.
Result(op, self, arg, kind, val) ==
    [op |-> op, self |-> self, arg |-> arg, kind |-> kind, val |-> val]

NoCall == Result("none", <<>>, <<>>, "none", <<>>)

MatIdle ==
    /\ m = Id
    /\ chain = <<>>
    /\ edits = 0
    /\ inv = NoInv
    /\ xs = NoXs
    /\ call = NoCall

CanvasIdle == New(0, 0, Black)

Init ==
    /\ \E w \in 0..MaxW, h \in 0..MaxH, fill \in Palette :
          /\ w * h <= MaxCells
          /\ New(w, h, fill)
    /\ MatIdle

Next ==
    \/ \E x \in 0..width, y \in 0..height, color \in Palette, checks \in BOOLEAN :
          WritePixel(x, y, color, checks)
    \/ \E checks \in BOOLEAN : ToPpmCall(checks)
    \/ TestPpmPixelData
    \/ TestPpmSplitLines

Spec == Init /\ [][Next]_vars

---------------------------------------------------------------------------
(* The specification of the canvas with colours whose pixels take 6, 11 and 12
   characters, so that a line can stand at any distance from the limit. *)

\* Black, (1, 0.8, 0.6) and (1, 1, 0.1): "0 0 0 ", "255 204 153 " and "255 255 25 ".
OddPalette == {Color(0, 0, 0), Color(10, 8, 6), Color(10, 10, 1)}

InitWrap ==
    /\ \E w \in 0..MaxW, h \in 0..MaxH, fill \in OddPalette :
          /\ w * h <= MaxCells
          /\ New(w, h, fill)
    /\ MatIdle

NextWrap ==
    \/ \E x \in 0..width, y \in 0..height, color \in OddPalette, checks \in BOOLEAN :
          WritePixel(x, y, color, checks)
    \/ \E checks \in BOOLEAN : ToPpmCall(checks)

SpecWrap == InitWrap /\ [][NextWrap]_vars

---------------------------------------------------------------------------
(* The specification of the fluent builders: a chain of transforms from Mat4::id(). *)

TranslateArgs == {<<10, 5, 7>>, <<1, -2, 0>>}

ScaleArgs == {<<2, 2, 1>>, <<-1, 3, 2>>}

RotateArgs == {1, 2}

ShearArgs == {<<1, 0, 0, 0, 0, 0>>, <<0, 2, 0, 1, 0, -1>>}

\* One step of a chain: the builder's result becomes m, and the elementary
\* transform it was given is appended to chain.
Append1(result, elementary) ==
    /\ Len(chain) < MaxChain
    /\ m' = result
    /\ chain' = Append(chain, elementary)
    /\ UNCHANGED <<edits, inv, xs, call, canvasVars>>

TranslateCall(t) == Append1(Translate(m, t[1], t[2], t[3]), NewTranslation(t[1], t[2], t[3]))

ScaleCall(t) == Append1(Scale(m, t[1], t[2], t[3]), NewScaling(t[1], t[2], t[3]))

RotateXCall(r) == Append1(RotateX(m, r), NewRotationX(r))

RotateYCall(r) == Append1(RotateY(m, r), NewRotationY(r))

RotateZCall(r) == Append1(RotateZ(m, r), NewRotationZ(r))

ShearCall(t) ==
    Append1(Shear(m, t[1], t[2], t[3], t[4], t[5], t[6]),
            NewShearing(t[1], t[2], t[3], t[4], t[5], t[6]))

InitFluent == MatIdle /\ CanvasIdle

NextFluent ==
    \/ \E t \in TranslateArgs : TranslateCall(t)
    \/ \E t \in ScaleArgs : ScaleCall(t)
    \/ \E r \in RotateArgs : RotateXCall(r)
    \/ \E r \in RotateArgs : RotateYCall(r)
    \/ \E r \in RotateArgs : RotateZCall(r)
    \/ \E t \in ShearArgs : ShearCall(t)

SpecFluent == InitFluent /\ [][NextFluent]_vars

---------------------------------------------------------------------------
(* The specification of inversion: a matrix is filled in, then inverted or made
   the transform of a sphere that a ray is cast at. *)

StartMatrices == {Id, NewScaling(2, 2, 2), NewTranslation(5, -3, 2)}

EntryValues == {-1, 0, 2}

Rays ==
    {NewRay(NewPoint(0, 0, -5), NewVec(0, 0, 1)),
     NewRay(NewPoint(0, 1, -5), NewVec(0, 0, 1)),
     NewRay(NewPoint(0, 2, -5), NewVec(0, 0, 1))}

Unused == inv.kind = "none" /\ xs.kind = "none"

\* m.data[row][col] = v
SetEntry(row, col, v) ==
    /\ Unused
    /\ edits < MaxEdits
    /\ m[row + 1][col + 1] # v
    /\ m' = [m EXCEPT ![row + 1][col + 1] = v]
    /\ edits' = edits + 1
    /\ UNCHANGED <<chain, inv, xs, call, canvasVars>>

\* m.inverted()
InvertedCall ==
    /\ Unused
    /\ inv' = Inverted(m)
    /\ UNCHANGED <<m, chain, edits, xs, call, canvasVars>>

\* s.set_transform(m); get_intersection(&s, &ray)
SphereIntersect(ray) ==
    /\ Unused
    /\ xs' = GetIntersection(m, ray)
    /\ UNCHANGED <<m, chain, edits, inv, call, canvasVars>>

InitInv ==
    /\ m \in StartMatrices
    /\ chain = <<>>
    /\ edits = 0
    /\ inv = NoInv
    /\ xs = NoXs
    /\ call = NoCall
    /\ CanvasIdle

NextInv ==
    \/ \E row \in 0..3, col \in 0..3, v \in EntryValues : SetEntry(row, col, v)
    \/ InvertedCall
    \/ \E ray \in Rays : SphereIntersect(ray)

SpecInv == InitInv /\ [][NextInv]_vars

---------------------------------------------------------------------------
(* The specification of the matrix functions: a Mat2, Mat3 or Mat4 is made,
   some of its entries are assigned, and one of its functions is called. *)

\* The matrices of matrix_tests (transposed, submatrix, cofactor, determinant)
\* and the identity of each size.
MatInputs ==
    { Id,
      << <<3, 5, 0, 1>>, <<2, -1, -7, 2>>, <<8, -1, 5, -2>>, <<6, -1, 9, 10>> >>,
      << <<3, 5, 0>>, <<2, -1, -7>>, <<6, -1, 5>> >>,
      << <<0, 9, 3, 0>>, <<9, 8, 0, 8>>, <<1, 8, 5, 3>>, <<0, 0, 5, 8>> >>,
      << <<-2, -8, 3, 5>>, <<-3, 1, 7, 3>>, <<1, 2, -9, 6>>, <<-6, 7, 7, -9>> >>,
      << <<1, 0, 0>>, <<0, 1, 0>>, <<0, 0, 1>> >>,
      << <<1, 5, 0>>, <<-3, 2, 7>>, <<0, 6, -3>> >>,
      << <<1, 2, 6>>, <<-5, 8, -4>>, <<2, 6, 4>> >>,
      << <<1, 0>>, <<0, 1>> >>,
      << <<1, 5>>, <<-3, 2>> >> }

NotCalled == call.op = "none"

\* m.data[row][col] = v, on a matrix of any size
SetData(row, col, v) ==
    /\ NotCalled
    /\ edits < MaxMatEdits
    /\ m[row + 1][col + 1] # v
    /\ m' = [m EXCEPT ![row + 1][col + 1] = v]
    /\ edits' = edits + 1
    /\ UNCHANGED <<chain, inv, xs, call, canvasVars>>

\* The call leaves its result in call and the matrix where it is.
Called(result) ==
    /\ NotCalled
    /\ call' = result
    /\ UNCHANGED <<m, chain, edits, inv, xs, canvasVars>>

\* m.transposed()
TransposedCall == Called(Result("transposed", m, <<>>, "ok", Transposed(m)))

\* m.determinant()
DeterminantCall == Called(Result("determinant", m, <<>>, "ok", Determinant(m)))

\* m.submatrix(row, col), m a Mat3 or a Mat4
SubmatrixCall(row, col) ==
    /\ Len(m) >= 3
    /\ Called(Result("submatrix", m, <<row, col>>,
                     Submatrix(m, row, col).kind, Submatrix(m, row, col).val))

\* m.minor(row, col), m a Mat3 or a Mat4
MinorCall(row, col) ==
    /\ Len(m) >= 3
    /\ Called(Result("minor", m, <<row, col>>,
                     Minor(m, row, col).kind, Minor(m, row, col).val))

\* m.cofactor(row, col), m a Mat3 or a Mat4
CofactorCall(row, col) ==
    /\ Len(m) >= 3
    /\ Called(Result("cofactor", m, <<row, col>>,
                     Cofactor(m, row, col).kind, Cofactor(m, row, col).val))

InitMat ==
    /\ m \in MatInputs
    /\ chain = <<>>
    /\ edits = 0
    /\ inv = NoInv
    /\ xs = NoXs
    /\ call = NoCall
    /\ CanvasIdle

NextMat ==
    \/ \E row \in 0..(Len(m) - 1), col \in 0..(Len(m) - 1), v \in EntryValues :
          SetData(row, col, v)
    \/ TransposedCall
    \/ DeterminantCall
    \/ \E row \in 0..Len(m), col \in 0..Len(m) : SubmatrixCall(row, col)
    \/ \E row \in 0..Len(m), col \in 0..Len(m) : MinorCall(row, col)
    \/ \E row \in 0..Len(m), col \in 0..Len(m) : CofactorCall(row, col)

SpecMat == InitMat /\ [][NextMat]_vars

---------------------------------------------------------------------------
(* The specification of the Vec4 functions: one function is called on operands
   with small whole components. *)

\* The w of a vector, of a point and of neither.
Ws == {0, 1, -2}

\* The Vec4 values with x, y and z in -MaxCoord .. MaxCoord and w in Ws.
Vecs ==
    { NewVec4(x, y, z, w) : x \in (-MaxCoord)..MaxCoord, y \in (-MaxCoord)..MaxCoord,
                            z \in (-MaxCoord)..MaxCoord, w \in Ws }

\* The operands of a call that is still to be made, and their type.
Operands(type, a, b) == Result("none", a, b, type, <<>>)

\* &a + &b
AddCall == Called(Result("add", call.self, call.arg, "ok", VecAdd(call.self, call.arg)))

\* &a - &b
SubCall == Called(Result("sub", call.self, call.arg, "ok", VecSub(call.self, call.arg)))

\* a.cross(&b)
CrossCall == Called(Result("cross", call.self, call.arg, "ok", Cross(call.self, call.arg)))

\* The magnitudes that are a power of two, squared: dividing by such a
\* magnitude, and taking the magnitude of the quotient, is exact in f64.
ExactSquares == {0, 1, 4, 16, 64}

\* v.normalized(), for an operand whose magnitude is 0 or a power of two
NormalizedCall ==
    /\ Dot(call.self, call.self) \in ExactSquares
    /\ Called(Result("normalized", call.self, <<>>, "ok", Normalized(call.self)))

InitVec ==
    /\ m = Id
    /\ chain = <<>>
    /\ edits = 0
    /\ inv = NoInv
    /\ xs = NoXs
    /\ \E a \in Vecs, b \in Vecs : call = Operands("Vec4", a, b)
    /\ CanvasIdle

NextVec ==
    \/ AddCall
    \/ SubCall
    \/ CrossCall
    \/ NormalizedCall

SpecVec == InitVec /\ [][NextVec]_vars

---------------------------------------------------------------------------
(* The specification of equality: two values that differ in some components,
   by less than the tolerance, by the tolerance or by more, are compared. *)

\* Differences in ten-millionths: 0.0000005, just below 0.00001, 0.00001, just
\* above it, and 0.005.
Offsets == {0, 5, 99, 100, 101, 50000}

\* The f64 n.0
Whole(n) == n * EqScale

\* The values within an offset of 0.0 and of 1.0.
Scalars == {Whole(n) + off : n \in {0, 1}, off \in Offsets}

EqVecs == {NewPoint(Whole(1), 0, Whole(1)), NewVec(0, Whole(1), 0)}

EqColors == {Color(Whole(1), 0, Whole(1)), Color(0, 0, 0)}

\* $mat_name::new of the identity of size n
WholeId(n) == [row \in 1..n |-> [col \in 1..n |-> IF row = col THEN Whole(1) ELSE 0]]

\* f with at most k of its components moved up by an offset.
RECURSIVE Bumps(_, _)
Bumps(f, k) ==
    IF k = 0 THEN {f}
    ELSE LET fewer == Bumps(f, k - 1)
         IN  fewer \cup {[g EXCEPT ![key] = f[key] + off] :
                            g \in fewer, key \in DOMAIN f, off \in Offsets}

\* The matrices that differ from a in at most k entries.
MatBumps(a, k) ==
    LET n == Len(a)
        flat == [p \in (1..n) \X (1..n) |-> a[p[1]][p[2]]]
    IN  {[row \in 1..n |-> [col \in 1..n |-> g[<<row, col>>]]] : g \in Bumps(flat, k)}

BumpsOf(f) == Bumps(f, MaxDiffs)

MatBumpsOf(a) == MatBumps(a, MaxDiffs)

\* equal_approx(a, b)
EqualApproxCall ==
    /\ call.kind = "f64"
    /\ Called(Result("equal_approx", call.self, call.arg, "ok",
                     EqualApprox(call.self, call.arg)))

\* a == b for two Vec4
Vec4EqCall ==
    /\ call.kind = "Vec4"
    /\ Called(Result("vec4_eq", call.self, call.arg, "ok", Vec4Eq(call.self, call.arg)))

\* a == b for two Color
ColorEqCall ==
    /\ call.kind = "Color"
    /\ Called(Result("color_eq", call.self, call.arg, "ok", ColorEq(call.self, call.arg)))

\* a == b for two matrices of one size
MatEqCall ==
    /\ call.kind = "Mat"
    /\ Called(Result("mat_eq", call.self, call.arg, "ok", MatEq(call.self, call.arg)))

\* a.equal_approx(&b) for two matrices of one size
MatEqualApproxCall ==
    /\ call.kind = "Mat"
    /\ Called(Result("mat_equal_approx", call.self, call.arg, "ok",
                     MatEqualApprox(call.self, call.arg)))

InitEq ==
    /\ m = Id
    /\ chain = <<>>
    /\ edits = 0
    /\ inv = NoInv
    /\ xs = NoXs
    /\ \/ \E a \in Scalars, b \in Scalars : call = Operands("f64", a, b)
       \/ \E a \in EqVecs : \E b \in BumpsOf(a) :
             call \in {Operands("Vec4", a, b), Operands("Vec4", b, a)}
       \/ \E a \in EqColors : \E b \in BumpsOf(a) :
             call \in {Operands("Color", a, b), Operands("Color", b, a)}
       \/ \E n \in 2..4 : \E b \in MatBumpsOf(WholeId(n)) :
             call \in {Operands("Mat", WholeId(n), b), Operands("Mat", b, WholeId(n))}
    /\ CanvasIdle

NextEq ==
    \/ EqualApproxCall
    \/ Vec4EqCall
    \/ ColorEqCall
    \/ MatEqCall
    \/ MatEqualApproxCall

SpecEq == InitEq /\ [][NextEq]_vars

---------------------------------------------------------------------------
(* The specification of translation: Mat4::new_translation(x, y, z), or its
   inverse, is multiplied by a Vec4. The operands are drawn at the start. *)

\* The arguments of new_translation: whole numbers in -MaxCoord .. MaxCoord, and
\* those of transforms::translation.
Shifts ==
    {<<x, y, z>> : x \in (-MaxCoord)..MaxCoord, y \in (-MaxCoord)..MaxCoord,
                   z \in (-MaxCoord)..MaxCoord} \cup {<<5, -3, 2>>}

\* The Vec4 operands: the points and the vectors of Vecs, and the point and the
\* vector of transforms::translation.
TransVecs ==
    {v \in Vecs : v.w \in {0, 1}} \cup {NewPoint(-3, 4, 5), NewVec(-3, 4, 5)}

\* The matrix of the quotients num[row][col] / den, where each is a whole number.
Quotients(num, den) == [row \in 1..4 |-> [col \in 1..4 |-> num[row][col] \div den]]

IsWhole(num, den) == \A row, col \in 1..4 : num[row][col] % den = 0

\* Mat4::new_translation(x, y, z) * v
TranslationMulCall ==
    /\ call.kind = "translation"
    /\ LET t == NewTranslation(call.self[1], call.self[2], call.self[3])
       IN  Called(Result("mul", call.self, call.arg, "ok", MatVec(t, call.arg)))

\* Mat4::new_translation(x, y, z).inverted() * v
TranslationInvMulCall ==
    /\ call.kind = "translation"
    /\ LET t == NewTranslation(call.self[1], call.self[2], call.self[3])
           Mul(t_inv) ==
               IF t_inv.kind = "panic" THEN Result("inv_mul", call.self, call.arg, "panic", <<>>)
               ELSE IF ~IsWhole(t_inv.num, t_inv.den)
                    THEN Result("inv_mul", call.self, call.arg, "fraction", <<>>)
               ELSE Result("inv_mul", call.self, call.arg, "ok",
                           MatVec(Quotients(t_inv.num, t_inv.den), call.arg))
       IN  Called(CHOOSE out \in {Mul(t_inv) : t_inv \in {Inverted(t)}} : TRUE)

InitTrans ==
    /\ m = Id
    /\ chain = <<>>
    /\ edits = 0
    /\ inv = NoInv
    /\ xs = NoXs
    /\ \E t \in Shifts, v \in TransVecs : call = Operands("translation", t, v)
    /\ CanvasIdle

NextTrans ==
    \/ TranslationMulCall
    \/ TranslationInvMulCall

SpecTrans == InitTrans /\ [][NextTrans]_vars

---------------------------------------------------------------------------
(* Reading a PPM string back: what the claims about to_ppm are stated on. *)

Positions(s) == [i \in 1..Len(s) |-> i]

\* str::lines: the pieces between newlines; a final empty piece is no line.
Lines(s) ==
    LET nl == SelectSeq(Positions(s), LAMBDA i : s[i] = NL)
        n == Len(nl)
        done == IF n = 0 THEN 0 ELSE nl[n]
    IN  [k \in 1..n |-> SubSeq(s, IF k = 1 THEN 1 ELSE nl[k - 1] + 1, nl[k] - 1)]
        \o (IF done < Len(s) THEN <<SubSeq(s, done + 1, Len(s))>> ELSE <<>>)

IsSpace(ch) == ch = NL \/ ch = SP

\* str::split_whitespace: the maximal pieces without a space or a newline.
Tokens(s) ==
    LET first == SelectSeq(Positions(s),
                     LAMBDA i : ~IsSpace(s[i]) /\ (i = 1 \/ IsSpace(s[i - 1])))
        final == SelectSeq(Positions(s),
                     LAMBDA i : ~IsSpace(s[i]) /\ (i = Len(s) \/ IsSpace(s[i + 1])))
    IN  [k \in 1..Len(first) |-> SubSeq(s, first[k], final[k])]

DigitValue(ch) == CHOOSE d \in 0..9 : DigitChars[d + 1] = ch

IsNumber(tok) ==
    /\ tok # <<>>
    /\ \A i \in DOMAIN tok : \E d \in 0..9 : DigitChars[d + 1] = tok[i]
    /\ Len(tok) > 1 => tok[1] # "0"

RECURSIVE ParseInt(_)
ParseInt(tok) ==
    IF tok = <<>> THEN 0
    ELSE 10 * ParseInt(SubSeq(tok, 1, Len(tok) - 1)) + DigitValue(tok[Len(tok)])

ParseAll(toks) == [i \in DOMAIN toks |-> ParseInt(toks[i])]

\* The lines after the three header lines.
BodyLines(s) == SubSeq(Lines(s), 4, Len(Lines(s)))

\* The numbers of the body, line after line.
BodyNumbers(s) ==
    LET toks == [i \in DOMAIN BodyLines(s) |-> ParseAll(Tokens(BodyLines(s)[i]))]
        RECURSIVE Flat(_)
        Flat(k) == IF k = 0 THEN <<>> ELSE Flat(k - 1) \o toks[k]
    IN  Flat(Len(toks))

\* A line is numbers separated by single spaces, nothing else.
RECURSIVE Join(_)
Join(toks) ==
    IF toks = <<>> THEN <<>>
    ELSE IF Len(toks) = 1 THEN toks[1]
    ELSE toks[1] \o <<SP>> \o Join(Tail(toks))

WellFormedLine(line) ==
    /\ line # <<>>
    /\ \A i \in DOMAIN Tokens(line) : IsNumber(Tokens(line)[i])
    /\ line = Join(Tokens(line))

\* The channels of the canvas in row-major order, three per pixel.
ExpectedChannels(w, h, px) ==
    [k \in 1..(3 * w * h) |->
        AsU8Tup(px[((k - 1) \div (3 * w)) + 1][(((k - 1) % (3 * w)) \div 3) + 1])[((k - 1) % 3) + 1]]

\* The number of body lines before line i, and the numbers on them.
RECURSIVE NumbersBefore(_, _)
NumbersBefore(lines, i) ==
    IF i <= 1 THEN 0 ELSE NumbersBefore(lines, i - 1) + Len(Tokens(lines[i - 1]))

IsPpm == ret.kind = "ppm"

\* Some canvas row was wrapped over more than one line.
Wrapped == IsPpm /\ Len(BodyLines(ret.val)) > height

---------------------------------------------------------------------------
(* Claims about to_ppm, write_pixel and as_u8_tup, under Spec *)

\* C1: no line of the string returned by to_ppm is longer than 70 characters,
\* the terminating newline not counted.
C1_LinesAtMost70 ==
    IsPpm => \A i \in DOMAIN Lines(ret.val) : Len(Lines(ret.val)[i]) <= 70

\* A wrapped row whose first line is filled to 69 characters.
C1_Witness ==
    /\ Wrapped
    /\ \E i \in DOMAIN Lines(ret.val) : Len(Lines(ret.val)[i]) = 69

\* C2: the body of to_ppm, split on whitespace, is exactly the 3*W*H channels
\* of the pixels in row-major order, each a whole number, whatever the
\* wrapping; the canvas of ppm_pixel_data gives the three rows of the test.
C2_BodyIsTheChannels ==
    IsPpm =>
        /\ \A i \in DOMAIN BodyLines(ret.val) : WellFormedLine(BodyLines(ret.val)[i])
        /\ Len(BodyNumbers(ret.val)) = 3 * width * height
        /\ BodyNumbers(ret.val) = ExpectedChannels(width, height, pixels)
        /\ pixels = PpmPixelDataCanvas =>
              [i \in 1..3 |-> ParseAll(Tokens(BodyLines(ret.val)[i]))] =
                 << <<255, 0, 0, 0, 0, 0, 0, 0, 0, 0, 0, 0, 0, 0, 0>>,
                    <<0, 0, 0, 0, 0, 0, 0, 127, 0, 0, 0, 0, 0, 0, 0>>,
                    <<0, 0, 0, 0, 0, 0, 0, 0, 0, 0, 0, 0, 0, 0, 255>> >>

\* A wrapped row holding pixels of different colours.
C2_Witness ==
    /\ Wrapped
    /\ \E x \in 1..width : pixels[1][x] # pixels[1][1]

\* C3: to_ppm returns the header "P3\n{W} {H}\n255\n" followed by one group of
\* lines per canvas row: at least H body lines, and no line holding pixels of
\* two canvas rows.
C3_HeaderThenOneGroupPerRow ==
    IsPpm =>
        LET ls == Lines(ret.val)
            body == BodyLines(ret.val)
        IN  /\ Len(ls) >= 3
            /\ ls[1] = <<"P", "3">>
            /\ WellFormedLine(ls[2])
            /\ ParseAll(Tokens(ls[2])) = <<width, height>>
            /\ ls[3] = <<"2", "5", "5">>
            /\ Len(body) >= height
            /\ \A i \in DOMAIN body :
                  LET before == NumbersBefore(body, i)
                      here == Len(Tokens(body[i]))
                  IN  here > 0 /\ width > 0 =>
                        before \div (3 * width) = (before + here - 1) \div (3 * width)

C5_WritePixelNeverPanics ==
    [][ret'.kind \in {"unit", "panic"} =>
          /\ ret'.kind = "unit"
          /\ width' = width
          /\ height' = height
          /\ last' = last => pixels' = pixels]_vars

\* C6: the grid keeps height rows of width pixels, and read_pixel(x, y) is the
\* colour of the latest write_pixel at (x, y), or the fill colour.
C6_GridHoldsLatestWrites ==
    /\ Len(pixels) = height
    /\ \A y \in 1..height : Len(pixels[y]) = width
    /\ \A p \in Coords(width, height) : ReadPixel(p[1], p[2]) = last[p]

\* After writes, a canvas of two rows on which neighbours differ.
C6_Witness ==
    /\ ret.kind = "unit"
    /\ width >= 2
    /\ height >= 2
    /\ pixels[1][1] # pixels[1][2]
    /\ pixels[1][1] # pixels[2][1]
    /\ pixels[2][2] # pixels[1][2]

\* The 8-bit value of a component of c tenths: c * 255 / 10 truncated toward
\* zero, 0 below 0 and 255 above 255.
IsQuantised(c, n) ==
    /\ n \in 0..255
    /\ c < 0 => n = 0
    /\ c * 255 >= 255 * ColorScale => n = 255
    /\ (c >= 0 /\ c * 255 < 255 * ColorScale) =>
          (n * ColorScale <= c * 255 /\ c * 255 < (n + 1) * ColorScale)

\* C7: as_u8_tup gives, per component, c * 255 truncated toward zero and
\* saturated to 0..255 (1.5 and 1.0 give 255, 0.5 gives 127, -0.5 and -1.0
\* give 0), so every channel of the PPM is in 0..255.
C7_AsU8TupSaturates ==
    /\ \A y \in DOMAIN pixels : \A x \in DOMAIN pixels[y] :
          LET c == pixels[y][x]
              t == AsU8Tup(c)
          IN  /\ IsQuantised(c.r, t[1]) /\ IsQuantised(c.g, t[2]) /\ IsQuantised(c.b, t[3])
              /\ \A k \in 1..3 :
                    LET v == <<c.r, c.g, c.b>>[k]
                    IN  /\ v \in {15, 10} => t[k] = 255
                        /\ v = 5 => t[k] = 127
                        /\ v \in {-5, -10} => t[k] = 0
    /\ IsPpm => \A tok \in {Tokens(ret.val)[i] : i \in 5..Len(Tokens(ret.val))} :
                    IsNumber(tok) /\ ParseInt(tok) \in 0..255

\* A canvas with a component above 1 and one below 0, encoded.
C7_Witness ==
    /\ IsPpm
    /\ \E y \in DOMAIN pixels : \E x \in DOMAIN pixels[y] :
          pixels[y][x].r > 10 /\ pixels[y][x].b < 0

\* to_ppm was called on the canvas of ppm_split_lines: 10 x 2, every pixel
\* (1, 0.8, 0.6).
IsSplitLinesPpm ==
    /\ IsPpm
    /\ width = 10
    /\ height = 2
    /\ pixels = CanvasNew(10, 2, Color(10, 8, 6))

\* Row `row` of the 10 x 2 canvas is two lines, the first `first` characters
\* long and ending inside a pixel, the second with the rest of the row.
RowIsTwoLines(row, first) ==
    LET body == BodyLines(ret.val)
        one == body[(2 * row) - 1]
        two == body[2 * row]
    IN  /\ Len(one) = first
        /\ Len(Tokens(one)) % 3 # 0
        /\ Tokens(one) \o Tokens(two) =
              [k \in 1..30 |-> ToString(<<255, 204, 153>>[((k - 1) % 3) + 1])]

\* C17 as it was claimed: the 10 x 2 canvas of colour (1, 0.8, 0.6) has every
\* row wrapped at exactly 70 characters: two lines per row, the first exactly
\* 70 characters long and ending inside a pixel, the second completing the row.
C17_RowsWrapAtExactly70 ==
    IsSplitLinesPpm =>
        /\ Len(BodyLines(ret.val)) = 4
        /\ RowIsTwoLines(1, 70)
        /\ RowIsTwoLines(2, 70)

\* C17, amended: every row of that canvas is two lines; the first is 67
\* characters long and ends after the green channel of the sixth pixel, the
\* second, 51 characters long, starts with its blue channel and completes the
\* row, as ppm_split_lines asserts.
C17_RowsWrapAfter67 ==
    IsSplitLinesPpm =>
        LET body == BodyLines(ret.val)
        IN  /\ Len(body) = 4
            /\ RowIsTwoLines(1, 67)
            /\ RowIsTwoLines(2, 67)
            /\ Len(Tokens(body[1])) = 17 /\ Len(Tokens(body[3])) = 17
            /\ Len(body[2]) = 51 /\ Len(body[4]) = 51
            /\ body[3] = body[1] /\ body[4] = body[2]

\* The canvas of ppm_split_lines, encoded.
C17_Witness ==
    /\ IsSplitLinesPpm
    /\ Len(Lines(ret.val)) = 7

\* The channels of a canvas row as decimal strings, three per pixel.
RowTokens(row) ==
    [t \in 1..(3 * Len(row)) |-> ToString(AsU8Tup(row[((t - 1) \div 3) + 1])[((t - 1) % 3) + 1])]

\* The tokens of a row after which the rule of C18 breaks the line, from pixel
\* k on, with n characters on the current line: 3k - 1 is the G of pixel k,
\* 3k - 2 its R and 3k - 3 the B of the pixel before.
RECURSIVE RuleBreaks(_, _, _)
RuleBreaks(toks, k, n) ==
    IF 3 * k > Len(toks) THEN {}
    ELSE LET r == Len(toks[(3 * k) - 2])
             g == Len(toks[(3 * k) - 1])
             b == Len(toks[3 * k])
         IN  IF n + r + g + b + 3 <= 70 THEN RuleBreaks(toks, k + 1, n + r + g + b + 3)
             ELSE IF r + 1 + g + 1 <= 70 - n
                  THEN {(3 * k) - 1} \cup RuleBreaks(toks, k + 1, b + 1)
             ELSE IF r + 1 <= 70 - n
                  THEN {(3 * k) - 2} \cup RuleBreaks(toks, k + 1, g + b + 2)
             ELSE {(3 * k) - 3} \cup RuleBreaks(toks, k + 1, r + g + b + 3)

\* The tokens from token t on, a newline after those of breaks and after the
\* last one, a space after the others.
RECURSIVE Laid(_, _, _)
Laid(toks, breaks, t) ==
    IF t > Len(toks) THEN <<>>
    ELSE toks[t] \o <<IF t = Len(toks) \/ t \in breaks THEN NL ELSE SP>>
         \o Laid(toks, breaks, t + 1)

RECURSIVE LaidRows(_, _)
LaidRows(px, y) ==
    IF y > Len(px) THEN <<>>
    ELSE Laid(RowTokens(px[y]), RuleBreaks(RowTokens(px[y]), 1, 0), 1) \o LaidRows(px, y + 1)

\* C18: with n characters on the current line, a pixel "r g b " with
\* n + len("r g b ") <= 70 is appended without a break; otherwise the line is
\* broken after g if len("r g") + 1 <= 70 - n, else after r if
\* len("r") + 1 <= 70 - n, else before r, the space before it giving way to the
\* newline: the text after the header is the channels laid out by this rule.
C18_SplitsAtFirstFeasibleBoundary ==
    (IsPpm /\ width > 0) =>
        ret.val = PpmHeader(width, height) \o LaidRows(pixels, 1)

\* A row broken after an R, where R and G did not fit.
C18_Witness ==
    /\ IsPpm
    /\ height = 1
    /\ \E t \in RuleBreaks(RowTokens(pixels[1]), 1, 0) : t % 3 = 1
    /\ Len(BodyLines(ret.val)) = 2

---------------------------------------------------------------------------
(* Claims about the fluent builders, under SpecFluent *)

TestVectors == {NewPoint(1, 2, 3), NewPoint(0, 0, 0), NewVec(1, -1, 2), NewVec(0, 1, 0)}

\* E1 * (E2 * (... (En * v))): the last transform of the chain meets v first.
RECURSIVE ApplyChain(_, _)
ApplyChain(es, v) ==
    IF es = <<>> THEN v ELSE MatVec(Head(es), ApplyChain(Tail(es), v))

\* E1 * (E2 * (... * En)), the transforms in the order they were appended.
RECURSIVE ChainProduct(_)
ChainProduct(es) ==
    IF es = <<>> THEN Id ELSE MatMul(Head(es), ChainProduct(Tail(es)))

\* C8: every builder returns self * E: the matrix of a chain is E1 * ... * En, so
\* M * v = E1 * (E2 * (... (En * v))), the transform appended last applied first;
\* Mat4::id().scale(2,2,1).translate(10,5,7) is the matrix of fluent_api.
C8_BuildersPostMultiply ==
    /\ m = ChainProduct(chain)
    /\ \A v \in TestVectors : MatVec(m, v) = ApplyChain(chain, v)
    /\ chain = <<NewScaling(2, 2, 1), NewTranslation(10, 5, 7)>> =>
          m = << <<2, 0, 0, 20>>,
                 <<0, 2, 0, 10>>,
                 <<0, 0, 1, 7>>,
                 <<0, 0, 0, 1>> >>

\* The chain of transforms::fluent_api.
C8_Witness ==
    /\ chain = <<NewScaling(2, 2, 1), NewTranslation(10, 5, 7)>>
    /\ MatVec(m, NewPoint(1, 2, 3)) = NewPoint(22, 14, 10)

---------------------------------------------------------------------------
(* Claims about inversion, under SpecInv *)

Perms4 == {p \in [1..4 -> 1..4] : \A i, j \in 1..4 : i # j => p[i] # p[j]}

PermSign(p) ==
    IF Cardinality({ij \in (1..4) \X (1..4) : ij[1] < ij[2] /\ p[ij[1]] > p[ij[2]]}) % 2 = 0
    THEN 1 ELSE -1

RECURSIVE SumOver(_, _)
SumOver(S, mat) ==
    IF S = {} THEN 0
    ELSE LET p == CHOOSE q \in S : TRUE
         IN  PermSign(p) * mat[1][p[1]] * mat[2][p[2]] * mat[3][p[3]] * mat[4][p[4]]
             + SumOver(S \ {p}, mat)

\* The determinant as the sum over the permutations.
DetRef(mat) == SumOver(Perms4, mat)

ScaledId(k) == [row \in 1..4 |-> [col \in 1..4 |-> IF row = col THEN k ELSE 0]]

\* C9: for a matrix with determinant /= 0, inverted() holds cofactor(row, col) / det
\* at [col][row], and both products with the matrix are the identity: exactly
\* for the numerators (det times the identity), and within 1e-5 in f64, whose
\* rounding error per entry is below 1e-15 times the sum of |num * entry| / |det|.
C9_InverseTimesMatrixIsIdentity ==
    inv.kind = "ok" =>
        /\ inv.den # 0
        /\ inv.den = DetRef(m)
        /\ \A row, col \in 0..3 : inv.num[col + 1][row + 1] = Mat4Cofactor(m, row, col)
        /\ MatMul(inv.num, m) = ScaledId(inv.den)
        /\ MatMul(m, inv.num) = ScaledId(inv.den)
        /\ \A row, col \in 1..4 :
              /\ Abs(inv.num[row][1] * m[1][col]) + Abs(inv.num[row][2] * m[2][col]) +
                 Abs(inv.num[row][3] * m[3][col]) + Abs(inv.num[row][4] * m[4][col])
                    < 1000 * Abs(inv.den)
              /\ Abs(m[row][1] * inv.num[1][col]) + Abs(m[row][2] * inv.num[2][col]) +
                 Abs(m[row][3] * inv.num[3][col]) + Abs(m[row][4] * inv.num[4][col])
                    < 1000 * Abs(inv.den)

\* An inverse of an edited matrix that is not its own transpose.
C9_Witness ==
    /\ inv.kind = "ok"
    /\ edits > 0
    /\ \E row, col \in 1..4 : inv.num[row][col] # inv.num[col][row]

\* C10: inverted() fails exactly when the determinant is 0, and then returns no
\* matrix; get_intersection on a sphere whose transform has determinant 0 fails
\* the same way and returns no intersections.
C10_SingularMatrixFails ==
    /\ inv.kind # "none" =>
          /\ inv.kind = "panic" <=> DetRef(m) = 0
          /\ inv.kind = "panic" => inv.num = Mat4Zeros /\ inv.den = 0
          /\ inv.kind = "ok" => inv.den # 0
    /\ xs.kind # "none" =>
          /\ xs.kind = "panic" <=> DetRef(m) = 0
          /\ xs.kind = "panic" => xs.n = 0

\* inverted() called on a matrix made singular by an assignment.
C10_Witness ==
    /\ inv.kind = "panic"
    /\ edits > 0

\* Row `row` of mat times the Vec4 v.
RowTimes(mat, row, v) ==
    (mat[row][1] * v.x) + (mat[row][2] * v.y) + (mat[row][3] * v.z) + (mat[row][4] * v.w)

Component(v, row) == <<v.x, v.y, v.z, v.w>>[row]

\* The root t is the whole number v.
RootIs(t, v) ==
    \E s \in 0..t.disc : s * s = t.disc /\ (t.sign * s) - t.b = v * t.den

\* t <= u, for two roots of one quadratic.
RootLe(t, u) ==
    /\ t.b = u.b /\ t.disc = u.disc /\ t.den = u.den
    /\ t.den # 0
    /\ t.disc = 0 \/ (t.sign - u.sign) * t.den <= 0

UnitSphereRay(y) ==
    /\ m = Id
    /\ xs.kind = "xs"
    /\ xs.ray = NewRay(NewPoint(0, y, -5), NewVec(0, 0, 1))

\* C14: get_intersection takes a, b and c from the ray moved into object space
\* (the ray that the transform maps back onto the given ray); it returns no
\* value exactly when b*b - 4*a*c < 0, and otherwise the two values
\* (-b - sqrt(d)) / (2a) and (-b + sqrt(d)) / (2a), the first <= the second and
\* the two equal when the discriminant is 0, never a single value.  On the
\* unit sphere, with direction (0,0,1), origin (0,0,-5) gives 4 and 6, origin
\* (0,1,-5) gives 5 and 5, origin (0,2,-5) gives nothing.
C14_IntersectReturnsBothRoots ==
    xs.kind = "xs" =>
        LET o == xs.local.origin
            d == xs.local.direction
            den == xs.local.den
        IN  /\ den # 0
            /\ \A row \in 1..4 :
                  /\ RowTimes(m, row, o) = den * Component(xs.ray.origin, row)
                  /\ RowTimes(m, row, d) = den * Component(xs.ray.direction, row)
            /\ xs.a = (d.x * d.x) + (d.y * d.y) + (d.z * d.z) + (d.w * d.w)
            /\ xs.b = 2 * ((d.x * o.x) + (d.y * o.y) + (d.z * o.z) + (d.w * (o.w - den)))
            /\ xs.c = (o.x * o.x) + (o.y * o.y) + (o.z * o.z)
                         + ((o.w - den) * (o.w - den)) - (den * den)
            /\ xs.disc = (xs.b * xs.b) - (4 * xs.a * xs.c)
            /\ Len(xs.ts) = xs.n
            /\ Len(xs.ts) = 0 <=> xs.disc < 0
            /\ Len(xs.ts) \in {0, 2}
            /\ Len(xs.ts) = 2 =>
                  /\ xs.ts[1] = Root(xs.b, -1, xs.disc, 2 * xs.a)
                  /\ xs.ts[2] = Root(xs.b, 1, xs.disc, 2 * xs.a)
                  /\ RootLe(xs.ts[1], xs.ts[2])
                  /\ xs.disc = 0 => RootLe(xs.ts[2], xs.ts[1])
            /\ UnitSphereRay(0) => Len(xs.ts) = 2 /\ RootIs(xs.ts[1], 4) /\ RootIs(xs.ts[2], 6)
            /\ UnitSphereRay(1) => Len(xs.ts) = 2 /\ RootIs(xs.ts[1], 5) /\ RootIs(xs.ts[2], 5)
            /\ UnitSphereRay(2) => xs.ts = <<>>

\* A tangent ray on a sphere moved by an edited transform.
C14_Witness ==
    /\ xs.kind = "xs"
    /\ edits > 0
    /\ m # Id
    /\ xs.disc = 0
    /\ Len(xs.ts) = 2

---------------------------------------------------------------------------
(* Claims about the matrix functions, under SpecMat *)

IdN(n) == [row \in 1..n |-> [col \in 1..n |-> IF row = col THEN 1 ELSE 0]]

\* C11: for a matrix M of size 2, 3 or 4, transposed(M) holds M.data[j][i] at
\* [i][j], transposing it again gives M back, the transposed identity is the
\* identity, and M is as it was before the call.
C11_TransposedTwiceIsSame ==
    call.op = "transposed" =>
        LET n == Len(call.self)
            t == call.val
        IN  /\ n \in 2..4
            /\ call.kind = "ok"
            /\ Len(t) = n
            /\ \A i, j \in 1..n : t[i][j] = call.self[j][i]
            /\ Transposed(t) = call.self
            /\ call.self = IdN(n) => t = IdN(n)
            /\ m = call.self

\* The transpose of an edited 3 x 3 matrix that is not symmetric.
C11_Witness ==
    /\ call.op = "transposed"
    /\ Len(call.self) = 3
    /\ edits > 0
    /\ call.val # call.self

---------------------------------------------------------------------------
(* Claims about the Vec4 functions, under SpecVec *)

IsPoint(v) == v.w = 1

IsVector(v) == v.w = 0

\* C12: + and - of Vec4 act on x, y, z and w alike, so point - point is a
\* vector, point + vector a point, vector + vector and vector - vector vectors;
\* every pair of operands is accepted, and the operands are as they were.
C12_AddSubActOnW ==
    /\ [](call.op \in {"add", "sub"} =>
            LET a == call.self
                b == call.arg
                v == call.val
                sign == IF call.op = "add" THEN 1 ELSE -1
            IN  /\ call.kind = "ok"
                /\ v.x = a.x + sign * b.x
                /\ v.y = a.y + sign * b.y
                /\ v.z = a.z + sign * b.z
                /\ v.w = a.w + sign * b.w
                /\ (call.op = "sub" /\ IsPoint(a) /\ IsPoint(b)) => IsVector(v)
                /\ (call.op = "add" /\ IsPoint(a) /\ IsVector(b)) => IsPoint(v)
                /\ (IsVector(a) /\ IsVector(b)) => IsVector(v))
    /\ [][call'.op \in {"add", "sub"} =>
            call'.self = call.self /\ call'.arg = call.arg]_vars

\* A point added to a vector.
C12_Witness ==
    /\ call.op = "add"
    /\ call.self = NewPoint(1, -1, 1)
    /\ call.arg = NewVec(1, 1, 0)
    /\ call.val = NewPoint(2, 0, 1)

\* C13: a.cross(b) is made of the x, y and z of a and b alone, whatever their
\* w, its w is 0, and it is -(b.cross(a)).
C13_CrossIsAntisymmetric ==
    call.op = "cross" =>
        LET a == call.self
            b == call.arg
            v == call.val
        IN  /\ v.x = (a.y * b.z) - (a.z * b.y)
            /\ v.y = (a.z * b.x) - (a.x * b.z)
            /\ v.z = (a.x * b.y) - (a.y * b.x)
            /\ v.w = 0
            /\ v = Neg(Cross(b, a))
            /\ \A wa, wb \in Ws :
                  v = Cross([a EXCEPT !.w = wa], [b EXCEPT !.w = wb])

\* The cross product of two points that is not the zero vector.
C13_Witness ==
    /\ call.op = "cross"
    /\ IsPoint(call.self)
    /\ IsPoint(call.arg)
    /\ call.val.x # 0
    /\ call.val.y # 0

\* C15: for every vector v, the magnitude of v.normalized() is exactly 1.0, and
\* v is as it was before the call.
C15_NormalizedHasMagnitudeOne ==
    /\ [](call.op = "normalized" => MagnitudeIsOne(call.val))
    /\ [][call'.op = "normalized" => call'.self = call.self]_vars

---------------------------------------------------------------------------
(* Claims about equality, under SpecEq *)

\* a and b differ by less than 0.00001.
Near(a, b) == a - b < Tolerance /\ b - a < Tolerance

\* C16: equal_approx(a, b) holds exactly when |a - b| < 0.00001, so not when
\* the difference is 0.00001; == of Vec4 and of Color is that test on every
\* component; == of matrices is equality of every entry, so two matrices that
\* differ by less than 0.00001, and not by 0, in some entry are equal_approx
\* and not ==.
C16_ApproxIsStrictAndMatrixEqIsExact ==
    LET a == call.self
        b == call.arg
    IN  /\ call.op = "equal_approx" =>
              /\ call.val <=> Near(a, b)
              /\ Abs(a - b) = Tolerance => ~call.val
              /\ (a = Whole(1) /\ b = Whole(1) + 5) => call.val
              /\ (a = Whole(1) /\ b = Whole(1) + 50000) => ~call.val
        /\ call.op = "vec4_eq" =>
              (call.val <=> Near(a.x, b.x) /\ Near(a.y, b.y) /\ Near(a.z, b.z) /\ Near(a.w, b.w))
        /\ call.op = "color_eq" =>
              (call.val <=> Near(a.r, b.r) /\ Near(a.g, b.g) /\ Near(a.b, b.b))
        /\ call.op = "mat_eq" => (call.val <=> a = b)
        /\ call.op = "mat_equal_approx" =>
              /\ call.val <=> \A row, col \in 1..Len(a) : Near(a[row][col], b[row][col])
              /\ (a # b /\ \A row, col \in 1..Len(a) : Near(a[row][col], b[row][col]))
                    => call.val /\ ~MatEq(a, b)

\* Two 3 x 3 matrices that differ by 0.0000099 in one entry, found equal_approx.
C16_Witness ==
    /\ call.op = "mat_equal_approx"
    /\ Len(call.self) = 3
    /\ call.val
    /\ \E row, col \in 1..3 : Abs(call.self[row][col] - call.arg[row][col]) = 99

---------------------------------------------------------------------------
(* More claims about the matrix functions, under SpecMat *)

PermsOf(n) == {p \in [1..n -> 1..n] : \A i, j \in 1..n : i # j => p[i] # p[j]}

SignOf(p) ==
    IF Cardinality({ij \in (DOMAIN p) \X (DOMAIN p) : ij[1] < ij[2] /\ p[ij[1]] > p[ij[2]]}) % 2 = 0
    THEN 1 ELSE -1

\* mat[1][p[1]] * ... * mat[k][p[k]]
RECURSIVE TermOf(_, _, _)
TermOf(mat, p, k) == IF k = 0 THEN 1 ELSE TermOf(mat, p, k - 1) * mat[k][p[k]]

RECURSIVE SumTerms(_, _)
SumTerms(S, mat) ==
    IF S = {} THEN 0
    ELSE LET p == CHOOSE q \in S : TRUE
         IN  (SignOf(p) * TermOf(mat, p, Len(mat))) + SumTerms(S \ {p}, mat)

\* The determinant of a square matrix of any size as the sum over the permutations.
DetRefN(mat) == SumTerms(PermsOf(Len(mat)), mat)

\* mat without row `row` and column `col` (counted from 0), the entries that
\* remain in their order.
Without(mat, row, col) ==
    [i \in 1..(Len(mat) - 1) |-> [j \in 1..(Len(mat) - 1) |->
        mat[IF i <= row THEN i ELSE i + 1][IF j <= col THEN j ELSE j + 1]]]

\* The sum over j of mat[0][j] * (-1)^j * det(mat without row 0 and column j).
RECURSIVE ExpansionRef(_, _)
ExpansionRef(mat, j) ==
    IF j < 0 THEN 0
    ELSE ExpansionRef(mat, j - 1)
         + mat[1][j + 1] * (IF j % 2 = 0 THEN 1 ELSE -1) * DetRefN(Without(mat, 0, j))

\* C19: determinant() of a 2 x 2 matrix is ad - bc; of a 3 x 3 and of a 4 x 4
\* matrix it is the sum over j of data[0][j] * cofactor(0, j); for matrices of
\* whole entries it is the determinant as the sum over the permutations, and
\* the matrices of matrix_tests::determinant give 17, -196 and -4071.
C19_DeterminantIsCofactorExpansion ==
    call.op = "determinant" =>
        LET a == call.self
            n == Len(a)
        IN  /\ call.kind = "ok"
            /\ call.val = DetRefN(a)
            /\ n = 2 => call.val = (a[1][1] * a[2][2]) - (a[1][2] * a[2][1])
            /\ n > 2 => call.val = ExpansionRef(a, n - 1)
            /\ a = << <<1, 5>>, <<-3, 2>> >> => call.val = 17
            /\ a = << <<1, 2, 6>>, <<-5, 8, -4>>, <<2, 6, 4>> >> => call.val = -196
            /\ a = << <<-2, -8, 3, 5>>, <<-3, 1, 7, 3>>, <<1, 2, -9, 6>>, <<-6, 7, 7, -9>> >>
                  => call.val = -4071

\* The determinant, not 0, of a 4 x 4 matrix with an entry assigned.
C19_Witness ==
    /\ call.op = "determinant"
    /\ Len(call.self) = 4
    /\ edits > 0
    /\ call.val # 0

\* C20: submatrix(row, col) of an N x N matrix, N = 3 or 4, with row < N and
\* col < N returns the (N-1) x (N-1) matrix of the entries outside that row and
\* column, in their order, and leaves the matrix as it was; with row >= N or
\* col >= N it panics and returns no matrix.
C20_SubmatrixOrPanic ==
    call.op = "submatrix" =>
        LET a == call.self
            n == Len(a)
            row == call.arg[1]
            col == call.arg[2]
        IN  /\ n \in {3, 4}
            /\ m = a
            /\ (row < n /\ col < n) =>
                  /\ call.kind = "ok"
                  /\ Len(call.val) = n - 1
                  /\ call.val = Without(a, row, col)
            /\ (row >= n \/ col >= n) =>
                  /\ call.kind = "panic"
                  /\ call.val = <<>>
            /\ (a = << <<1, 5, 0>>, <<-3, 2, 7>>, <<0, 6, -3>> >> /\ row = 0 /\ col = 2)
                  => call.val = << <<-3, 2>>, <<0, 6>> >>

\* submatrix(1, 4) on a Mat4: the row exists, the column does not.
C20_Witness ==
    /\ call.op = "submatrix"
    /\ Len(call.self) = 4
    /\ call.arg = <<1, 4>>
    /\ call.kind = "panic"

\* C21: on a 3 x 3 or 4 x 4 matrix, with row and col in range, minor(row, col)
\* is the determinant of submatrix(row, col), the determinant of the matrix
\* without that row and column, and cofactor(row, col) is minor(row, col) when
\* row + col is even and its negation when row + col is odd; the matrices of
\* matrix_tests::cofactor give -12, -12, 25, -25 and -160, -160, 336, -336.
C21_MinorAndCofactor ==
    call.op \in {"minor", "cofactor"} =>
        LET a == call.self
            n == Len(a)
            row == call.arg[1]
            col == call.arg[2]
            a1 == << <<3, 5, 0>>, <<2, -1, -7>>, <<6, -1, 5>> >>
            a2 == << <<3, 5, 0, 1>>, <<2, -1, -7, 2>>, <<8, -1, 5, -2>>, <<6, -1, 9, 10>> >>
        IN  /\ n \in {3, 4}
            /\ (row < n /\ col < n) =>
                  /\ call.kind = "ok"
                  /\ Submatrix(a, row, col).kind = "ok"
                  /\ Minor(a, row, col).kind = "ok"
                  /\ call.op = "minor" =>
                        /\ call.val = Determinant(Submatrix(a, row, col).val)
                        /\ call.val = DetRefN(Without(a, row, col))
                  /\ call.op = "cofactor" =>
                        /\ (row + col) % 2 = 0 => call.val = Minor(a, row, col).val
                        /\ (row + col) % 2 = 1 => call.val = 0 - Minor(a, row, col).val
                        /\ call.val = (IF (row + col) % 2 = 0 THEN 1 ELSE -1)
                                          * DetRefN(Without(a, row, col))
            /\ (a = a1 /\ call.arg = <<0, 0>>) => call.val = -12
            /\ (a = a1 /\ call.arg = <<1, 0>>) =>
                  call.val = (IF call.op = "minor" THEN 25 ELSE -25)
            /\ (a = a2 /\ call.arg = <<0, 0>>) => call.val = -160
            /\ (a = a2 /\ call.arg = <<1, 0>>) =>
                  call.val = (IF call.op = "minor" THEN 336 ELSE -336)

\* cofactor(1, 2) of a 4 x 4 matrix with an entry assigned: row + col is odd,
\* the minor is not 0 and differs from the minor of (2, 1).
C21_Witness ==
    /\ call.op = "cofactor"
    /\ Len(call.self) = 4
    /\ call.arg = <<1, 2>>
    /\ edits > 0
    /\ call.kind = "ok"
    /\ call.val # 0
    /\ Minor(call.self, 1, 2).val # Minor(call.self, 2, 1).val

---------------------------------------------------------------------------
(* The claim about translation, under SpecTrans *)

\* C22: new_translation(x, y, z) times a point (w = 1) is the point moved by
\* (x, y, z), with w = 1; times a vector (w = 0) it is the vector; the inverse of
\* the translation exists and moves a point by (-x, -y, -z). The values of
\* transforms::translation come out: (2, 1, 7) and (-8, 7, 3).
C22_TranslationMovesPointsOnly ==
    call.op \in {"mul", "inv_mul"} =>
        LET x == call.self[1]
            y == call.self[2]
            z == call.self[3]
            v == call.arg
        IN  /\ call.kind = "ok"
            /\ (call.op = "mul" /\ IsPoint(v)) =>
                  call.val = NewVec4(v.x + x, v.y + y, v.z + z, 1)
            /\ (call.op = "mul" /\ IsVector(v)) => call.val = v
            /\ (call.op = "inv_mul" /\ IsPoint(v)) =>
                  call.val = NewVec4(v.x - x, v.y - y, v.z - z, 1)
            /\ (call.self = <<5, -3, 2>> /\ v = NewPoint(-3, 4, 5)) =>
                  call.val = (IF call.op = "mul" THEN NewPoint(2, 1, 7) ELSE NewPoint(-8, 7, 3))

\* The inverse of a translation that moves along x, y and z applied to a point
\* that is not the origin.
C22_Witness ==
    /\ call.op = "inv_mul"
    /\ call.kind = "ok"
    /\ \A i \in 1..3 : call.self[i] # 0
    /\ IsPoint(call.arg)
    /\ call.arg.x # 0
    /\ call.val # call.arg

---------------------------------------------------------------------------
(* Claims about the loop of to_ppm, under Spec *)

\* ppm_str and chars_in_current_line where the inner loop of to_ppm stands
\* after rows 1 .. j - 1 and the first i pixels of row j.
LoopHead(w, h, px, j, i) ==
    RowLoop(CanvasLoop([s |-> PpmHeader(w, h), n |-> 0, underflow |-> FALSE],
                       SubSeq(px, 1, j - 1), 1),
            SubSeq(px[j], 1, i), 1)

\* Every place where to_ppm stands between two pixels, and where it ends.
LoopHeads(w, h, px) ==
    {LoopHead(w, h, px, j, i) : j \in 1..Len(px), i \in 0..w} \cup {ToPpmRun(w, h, px)}

\* The number of characters of s after its last newline.
RECURSIVE CharsSinceNewline(_)
CharsSinceNewline(s) ==
    IF s = <<>> THEN 0
    ELSE IF s[Len(s)] = NL THEN 0
    ELSE 1 + CharsSinceNewline(SubSeq(s, 1, Len(s) - 1))

\* C23: during to_ppm on any canvas, before and after every pixel,
\* chars_in_current_line is at most 70, so 70 - chars_in_current_line never
\* underflows, and it is the number of characters of ppm_str after its last
\* newline; to_ppm does not panic under either build profile, and returns the
\* string the loop has built.
C23_CounterTracksCurrentLine ==
    /\ \A st \in LoopHeads(width, height, pixels) :
          /\ st.n <= LineLimit
          /\ UsizeSub(LineLimit, st.n, TRUE) # Overflow
          /\ ~st.underflow
          /\ st.n = CharsSinceNewline(st.s)
    /\ ret.kind = "ppm" => ret.val = ToPpmRun(width, height, pixels).s

\* to_ppm has returned, and one of its pixels met 68 or more characters on the
\* current line and went to the next line whole.
C23_Witness ==
    /\ ret.kind = "ppm"
    /\ height = 1
    /\ \E i \in 1..(width - 1) :
          /\ LoopHead(width, height, pixels, 1, i).n >= 68
          /\ LoopHead(width, height, pixels, 1, i + 1).n
                = Len(FormatLine(AsU8Tup(pixels[1][i + 1])[1], AsU8Tup(pixels[1][i + 1])[2],
                                 AsU8Tup(pixels[1][i + 1])[3]))

---------------------------------------------------------------------------
(* The claim about when to_ppm breaks a line, under SpecWrap *)

\* The number of newlines of s.
CountNL(s) == Cardinality({k \in DOMAIN s : s[k] = NL})

\* "r g b " of pixel i of row j.
PixelLine(px, j, i) ==
    FormatLine(AsU8Tup(px[j][i])[1], AsU8Tup(px[j][i])[2], AsU8Tup(px[j][i])[3])

\* to_ppm put a newline before or inside pixel i of row j.
Broke(w, h, px, j, i) ==
    CountNL(LoopHead(w, h, px, j, i).s) > CountNL(LoopHead(w, h, px, j, i - 1).s)

\* The pixels of the canvas, as (row, position in the row), counted from 1.
PixelsOf(w, h) == (1..h) \X (1..w)

\* C24 as claimed: to_ppm breaks the line before or inside a pixel only when
\* the line with "r g b" appended, no space after b, would be longer than 70
\* characters.
C24_BreaksOnlyWhenBarePixelOverflows ==
    IsPpm =>
        \A p \in PixelsOf(width, height) :
            Broke(width, height, pixels, p[1], p[2]) =>
                LoopHead(width, height, pixels, p[1], p[2] - 1).n
                    + Len(PixelLine(pixels, p[1], p[2])) - 1 > LineLimit

\* C24, amended: to_ppm breaks the line before or inside a pixel exactly when
\* the line with "r g b " appended, the space after b counted, would be longer
\* than 70 characters; a pixel that fits with its space is appended without a
\* break, and one whose numbers would end at character 70 is not.
C24_BreaksWhenPixelAndSpaceOverflow ==
    IsPpm =>
        \A p \in PixelsOf(width, height) :
            LET n == LoopHead(width, height, pixels, p[1], p[2] - 1).n
                line == PixelLine(pixels, p[1], p[2])
                after == LoopHead(width, height, pixels, p[1], p[2])
            IN  /\ Broke(width, height, pixels, p[1], p[2]) <=> n + Len(line) > LineLimit
                /\ n + Len(line) <= LineLimit =>
                      /\ after.s = LoopHead(width, height, pixels, p[1], p[2] - 1).s \o line
                      /\ after.n = n + Len(line)
                /\ CountNL(after.s)
                      <= CountNL(LoopHead(width, height, pixels, p[1], p[2] - 1).s) + 1

\* A pixel whose numbers would have ended at character 70 and that was broken.
C24_Witness ==
    /\ IsPpm
    /\ \E p \in PixelsOf(width, height) :
          /\ Broke(width, height, pixels, p[1], p[2])
          /\ LoopHead(width, height, pixels, p[1], p[2] - 1).n
                + Len(PixelLine(pixels, p[1], p[2])) - 1 = LineLimit

====
